---- MODULE Spec2Model ----
(***************************************************************************)
(* A model of the goose load-test engine: the per-user driver user_main    *)
(* and invoke_task_function (src/src/user.rs) with the other ends of the   *)
(* control and metrics channels, and the URL resolution build_url and the  *)
(* request recorder goose_send of GooseClient (src/src/goose.rs).          *)
(*                                                                         *)
(* Vector indices are 0-based as in the source; a TLA+ sequence is indexed *)
(* from 1, so element i of a vector v is v[i + 1].                         *)
(***************************************************************************)
EXTENDS Integers, Sequences, FiniteSets, TLC

\* ------------------------------------------------------------------ bounds
\* Largest max_wait a task set is configured with.
MaxWait == 2
\* Largest number of commands the supervisor sends to a user in a run.
MaxSent == 2

\* ---------------------------------------------------------------- helpers
None == "None"

Range(s) == { s[i] : i \in 1..Len(s) }

Count(s, v) == Cardinality({ i \in 1..Len(s) : s[i] = v })

\* Faulty variant of Shuffle: every position is drawn anew from the entries.
Shuffle_Resamples(s) == [1..Len(s) -> Range(s)]

\* All the orders of the entries of s: the outcomes of slice::shuffle.
Shuffle(s) ==
    { t \in [1..Len(s) -> Range(s)] : \A v \in Range(s) : Count(t, v) = Count(s, v) }

\* The outcomes of rng.gen_range(low, high): an integer of [low, high). The
\* call panics when the range is empty (low >= high).
gen_range(low, high) == low..(high - 1)

\* ------------------------------------------------------ task sets under test
\* Each task set gives its tasks' names (tasks[i].name, "" when unnamed) and
\* the three schedules built from it; every bucket is non-empty and every
\* task is in exactly one schedule.
TaskSets ==
    { \* a(seq 1, weight 2), b(seq 2), c(unsequenced)
      [ tasks |-> <<"a", "b", "c">>,
        weighted_on_start_tasks |-> <<>>,
        weighted_tasks |-> << <<0, 0>>, <<1>>, <<2>> >>,
        weighted_on_stop_tasks |-> <<>> ],
      \* login on start, browse, logout on stop
      [ tasks |-> <<"login", "", "logout">>,
        weighted_on_start_tasks |-> << <<0>> >>,
        weighted_tasks |-> << <<1>> >>,
        weighted_on_stop_tasks |-> << <<2>> >> ],
      \* two on_start buckets, one steady bucket of two tasks, one on_stop bucket
      [ tasks |-> <<"", "s", "", "", "n", "x", "">>,
        weighted_on_start_tasks |-> << <<0, 1>>, <<2>> >>,
        weighted_tasks |-> << <<3, 4>> >>,
        weighted_on_stop_tasks |-> << <<5, 6>> >> ],
      \* no steady task at all
      [ tasks |-> <<"setup", "teardown">>,
        weighted_on_start_tasks |-> << <<0>> >>,
        weighted_tasks |-> <<>>,
        weighted_on_stop_tasks |-> << <<1>> >> ] }

VARIABLES
    \* --- user_main: the user and its task set
    thread_task_set,            \* the task set (names and schedules as built)
    min_wait, max_wait,         \* thread_user.min_wait, thread_user.max_wait
    weighted_tasks,             \* thread_user.weighted_tasks (shuffled in place)
    user_weighted_bucket,       \* thread_user.weighted_bucket (atomic)
    user_weighted_bucket_position, \* thread_user.weighted_bucket_position (atomic)
    task_request_name,          \* thread_user.task_request_name
    \* --- user_main: locals
    pc,                         \* where the driver is
    seq_index,                  \* on_start/on_stop: buckets taken so far
    sequence,                   \* on_start/on_stop: the bucket being walked
    task_pos,                   \* on_start/on_stop: entries of it invoked so far
    thread_continue,
    weighted_bucket,
    weighted_bucket_position,
    wait_time,
    slept,
    \* --- the control channel
    thread_receiver,            \* commands sent and not yet received
    sent,                       \* number of commands sent so far
    sender_dropped,             \* the supervisor has closed the channel
    \* --- what has happened so far (observation only)
    exitSentAt,                 \* pc at which the first EXIT was sent, or None
    tasksAfterExit,             \* steady invocations started since then (0..2)
    quantaAfterExit,            \* sleep quanta started since then (0..2)
    quantaEndedAfterExit,       \* sleep quanta ended since then (0..2)
    advanced,                   \* the cursor has advanced into a bucket (first pass over)
    startLog,                   \* task indices invoked in the on_start phase
    bucketLog,                  \* task indices invoked since the current steady bucket was entered
    stopLog,                    \* task indices invoked in the on_stop phase
    steadyStarted,              \* a steady invocation has started
    iterations,                 \* steady iterations completed, modulo the schedule's length
    \* --- GooseClient::build_url
    config_host,                \* self.config.host ("" when --host is not given)
    task_set_host,              \* self.task_set_host
    default_host,               \* self.default_host
    url_path,                   \* the path of the last call
    url_result,                 \* what the last call returned
    \* --- GooseClient::goose_send and the recorder
    print_stats,                \* self.config.print_stats
    status_codes,               \* self.config.status_codes
    requests,                   \* self.requests: key -> GooseRequest
    send_result,                \* what the last call of goose_send returned
    num_requests,               \* calls of goose_send so far
    transport_failures,         \* key -> transport failures recorded (observation only)
    \* --- invoke_task_function and the metrics channel
    no_metrics,                 \* thread_user.config.no_metrics
    no_task_metrics,            \* thread_user.config.no_task_metrics
    channel_to_parent,          \* thread_user.channel_to_parent is Some(sender)
    metrics_receiver_dropped,   \* the parent has dropped the receiver
    sent_metrics,               \* what the last invocation sent to the parent
    send_outcome,               \* what parent.send returned to it
    \* --- several users and the parent's end of the metrics channel
    user_pc,                    \* user -> "idle" or "in_task"
    user_invoked,               \* user -> task functions invoked so far
    metrics_channel,            \* GooseMetric::Task records sent and not yet received
    received,                   \* records the parent has received, in order
    invocation_order,           \* users in the order of their invocations (observation only)
    \* --- GooseTaskSet builders and GooseClient::set_mode
    weight,                     \* task set: weight
    task_set_min_wait,          \* task set: min_wait
    task_set_max_wait,          \* task set: max_wait
    host,                       \* task set: host (Option<String>)
    mode,                       \* client: mode
    exited                      \* a builder has called std::process::exit(1)

driverVars ==
    << thread_task_set, min_wait, max_wait, weighted_tasks, user_weighted_bucket,
       user_weighted_bucket_position, task_request_name, pc, seq_index, sequence,
       task_pos, thread_continue, weighted_bucket, weighted_bucket_position,
       wait_time, slept >>

channelVars == << thread_receiver, sent, sender_dropped >>

historyVars ==
    << exitSentAt, tasksAfterExit, quantaAfterExit, quantaEndedAfterExit, advanced,
       startLog, bucketLog, stopLog, steadyStarted, iterations >>

urlVars == << config_host, task_set_host, default_host, url_path, url_result >>

sendVars ==
    << print_stats, status_codes, requests, send_result, num_requests,
       transport_failures >>

metricVars ==
    << no_metrics, no_task_metrics, channel_to_parent, metrics_receiver_dropped,
       sent_metrics, send_outcome >>

usersVars == << user_pc, user_invoked, metrics_channel, received, invocation_order >>

buildVars == << weight, task_set_min_wait, task_set_max_wait, host, mode, exited >>

vars ==
    << driverVars, channelVars, historyVars, urlVars, sendVars, metricVars,
       usersVars, buildVars >>

\* ------------------------------------------------------------- user_main
TaskName(task_index) == thread_task_set.tasks[task_index + 1]

\* if thread_task_name != "" { task_request_name = Some(name) }
RequestNameFor(task_index) ==
    IF TaskName(task_index) # "" THEN TaskName(task_index) ELSE task_request_name

Saturate(n) == IF n >= 2 THEN 2 ELSE n + 1

\* ------------------------------------------------- invoke_task_function
\* What a task function returns.
TaskResults == {"Ok", "Err"}

\* Faulty variant of TaskSucceeded: every invocation counts as a success.
TaskSucceeded_Always(result) == result \in TaskResults

\* function(&thread_user).await.is_ok()
TaskSucceeded(result) == result = "Ok"

\* GooseRawTask::new(..) and raw_task.set_time(.., success); the two times
\* and the indices of the task set and of the user are left out.
RawTask(task_index, success) ==
    [ task_index |-> task_index, name |-> TaskName(task_index), success |-> success ]

\* Faulty variant of MetricsOff: no_task_metrics is not consulted.
MetricsOff_OnlyNoMetrics == no_metrics

\* if thread_user.config.no_metrics || thread_user.config.no_task_metrics { return; }
MetricsOff == no_metrics \/ no_task_metrics

\* parent.send(..): Err when the receiver is gone.
SendOutcome == IF metrics_receiver_dropped THEN "Err" ELSE "Ok"

\* The task function has returned `result`: the record is completed and,
\* unless metrics are off or the user has no sender, sent to the parent; what
\* the send returns is dropped (`let _ =`).
invoke_task_function(task_index, result) ==
    /\ IF ~MetricsOff /\ channel_to_parent
       THEN /\ sent_metrics' = << RawTask(task_index, TaskSucceeded(result)) >>
            /\ send_outcome' = SendOutcome
       ELSE /\ sent_metrics' = << >>
            /\ send_outcome' = "none"
    /\ UNCHANGED << no_metrics, no_task_metrics, channel_to_parent,
                    metrics_receiver_dropped >>

ExitSent == exitSentAt # None

\* for mut sequence in weighted_on_start_tasks.clone() { if len > 1 { shuffle } ..
OnStartNextSequence ==
    /\ pc = "on_start"
    /\ task_pos >= Len(sequence)
    /\ seq_index < Len(thread_task_set.weighted_on_start_tasks)
    /\ LET bucket == thread_task_set.weighted_on_start_tasks[seq_index + 1]
       IN  sequence' \in (IF Len(bucket) > 1 THEN Shuffle(bucket) ELSE {bucket})
    /\ seq_index' = seq_index + 1
    /\ task_pos' = 0
    /\ UNCHANGED << thread_task_set, min_wait, max_wait, weighted_tasks,
                    user_weighted_bucket, user_weighted_bucket_position,
                    task_request_name, pc, thread_continue, weighted_bucket,
                    weighted_bucket_position, wait_time, slept >>
    /\ UNCHANGED << channelVars, historyVars, urlVars, sendVars, metricVars, usersVars, buildVars >>

\* .. for task_index in &sequence { set the request name; invoke the task }
OnStartInvoke ==
    /\ pc = "on_start"
    /\ task_pos < Len(sequence)
    /\ LET task_index == sequence[task_pos + 1]
       IN  /\ task_request_name' = RequestNameFor(task_index)
           /\ startLog' = Append(startLog, task_index)
    /\ pc' = "on_start_task"
    /\ UNCHANGED << thread_task_set, min_wait, max_wait, weighted_tasks,
                    user_weighted_bucket, user_weighted_bucket_position,
                    seq_index, sequence, task_pos, thread_continue,
                    weighted_bucket, weighted_bucket_position, wait_time, slept >>
    /\ UNCHANGED << exitSentAt, tasksAfterExit, quantaAfterExit, quantaEndedAfterExit,
                    advanced, bucketLog,
                    stopLog, steadyStarted, iterations >>
    /\ UNCHANGED << channelVars, urlVars, sendVars, metricVars, usersVars, buildVars >>

\* The on_start task function returns.
OnStartReturn ==
    /\ pc = "on_start_task"
    /\ pc' = "on_start"
    /\ task_pos' = task_pos + 1
    /\ \E result \in TaskResults : invoke_task_function(sequence[task_pos + 1], result)
    /\ UNCHANGED << thread_task_set, min_wait, max_wait, weighted_tasks,
                    user_weighted_bucket, user_weighted_bucket_position,
                    task_request_name, seq_index, sequence, thread_continue,
                    weighted_bucket, weighted_bucket_position, wait_time, slept >>
    /\ UNCHANGED << channelVars, historyVars, urlVars, sendVars, usersVars, buildVars >>

\* Faulty variant of LoopWanted: the loop is entered on an empty schedule too.
LoopWanted_Always(tasks) == Len(tasks) >= 0

\* let mut thread_continue = true;
\* if thread_user.weighted_tasks.is_empty() { thread_continue = false; }
LoopWanted(tasks) == Len(tasks) # 0

\* The on_start phase is over: load the cursor, decide whether to loop at all.
EnterLoop ==
    /\ pc = "on_start"
    /\ task_pos >= Len(sequence)
    /\ seq_index >= Len(thread_task_set.weighted_on_start_tasks)
    /\ thread_continue' = LoopWanted(weighted_tasks)
    /\ weighted_bucket' = user_weighted_bucket
    /\ weighted_bucket_position' = user_weighted_bucket_position
    /\ pc' = "loop_head"
    /\ UNCHANGED << thread_task_set, min_wait, max_wait, weighted_tasks,
                    user_weighted_bucket, user_weighted_bucket_position,
                    task_request_name, seq_index, sequence, task_pos,
                    wait_time, slept >>
    /\ UNCHANGED << channelVars, historyVars, urlVars, sendVars, metricVars, usersVars, buildVars >>

\* len(steady schedule): the number of entries over all buckets.
RECURSIVE ScheduleLen(_)
ScheduleLen(sched) ==
    IF sched = <<>> THEN 0 ELSE Len(Head(sched)) + ScheduleLen(Tail(sched))

\* The current bucket is exhausted when its length is <= the position.
BucketExhausted ==
    Len(weighted_tasks[weighted_bucket + 1]) <= weighted_bucket_position

\* Faulty variant of NextBucket: the bucket index is not advanced.
NextBucket_Stays == weighted_bucket

\* weighted_bucket += 1, wrapping to 0 past the last bucket.
NextBucket ==
    IF Len(weighted_tasks) <= weighted_bucket + 1 THEN 0 ELSE weighted_bucket + 1

\* One pass of `while thread_continue` up to the call of the task function:
\* move to the next bucket when this one is exhausted (publishing the cursor
\* and shuffling the new bucket), pick the task, set the request name.
SteadyInvoke ==
    /\ pc = "loop_head"
    /\ thread_continue
    /\ IF BucketExhausted
       THEN /\ weighted_bucket_position' = 0
            /\ user_weighted_bucket_position' = 0
            /\ weighted_bucket' = NextBucket
            \* .weighted_bucket.store(weighted_bucket_position, ..)
            /\ user_weighted_bucket' = 0
            /\ \E shuffled \in Shuffle(weighted_tasks[NextBucket + 1]) :
                 weighted_tasks' = [weighted_tasks EXCEPT ![NextBucket + 1] = shuffled]
       ELSE UNCHANGED << weighted_bucket_position, user_weighted_bucket_position,
                         weighted_bucket, user_weighted_bucket, weighted_tasks >>
    /\ LET thread_weighted_task ==
               weighted_tasks'[weighted_bucket' + 1][weighted_bucket_position' + 1]
       IN  /\ task_request_name' = RequestNameFor(thread_weighted_task)
           /\ bucketLog' = IF BucketExhausted
                           THEN << thread_weighted_task >>
                           ELSE Append(bucketLog, thread_weighted_task)
    /\ pc' = "steady_task"
    /\ steadyStarted' = TRUE
    /\ tasksAfterExit' = IF ExitSent THEN Saturate(tasksAfterExit) ELSE tasksAfterExit
    /\ UNCHANGED << thread_task_set, min_wait, max_wait, seq_index, sequence,
                    task_pos, thread_continue, wait_time, slept >>
    /\ advanced' = (advanced \/ BucketExhausted)
    /\ UNCHANGED << exitSentAt, quantaAfterExit, quantaEndedAfterExit, startLog, stopLog,
                    iterations >>
    /\ UNCHANGED << channelVars, urlVars, sendVars, metricVars, usersVars, buildVars >>

\* The steady task function returns; the wait is drawn and the sleep loop begins.
SteadyReturn ==
    /\ pc = "steady_task"
    /\ \E result \in TaskResults :
         invoke_task_function(weighted_tasks[weighted_bucket + 1][weighted_bucket_position + 1],
                              result)
    /\ slept' = 0
    /\ IF max_wait > 0
       THEN IF gen_range(min_wait, max_wait) # {}
            THEN /\ wait_time' \in gen_range(min_wait, max_wait)
                 /\ pc' = "try_recv"
            ELSE /\ wait_time' = wait_time
                 /\ pc' = "panicked"
       ELSE /\ wait_time' = 0
            /\ pc' = "try_recv"
    /\ UNCHANGED << thread_task_set, min_wait, max_wait, weighted_tasks,
                    user_weighted_bucket, user_weighted_bucket_position,
                    task_request_name, seq_index, sequence, task_pos,
                    thread_continue, weighted_bucket, weighted_bucket_position >>
    /\ UNCHANGED << channelVars, historyVars, urlVars, sendVars, usersVars, buildVars >>

\* Faulty variant of IsExit: SYNC, not EXIT, ends the loop.
IsExit_OnSync(command) == command = "SYNC"

\* match message.unwrap() { GooseUserCommand::EXIT => .. , command => .. }
IsExit(command) == command = "EXIT"

\* thread_receiver.try_recv() returns Ok(command).
TryRecvOk ==
    /\ pc = "try_recv"
    /\ thread_receiver # <<>>
    /\ thread_continue' = IF IsExit(Head(thread_receiver)) THEN FALSE ELSE thread_continue
    /\ thread_receiver' = Tail(thread_receiver)
    /\ UNCHANGED << thread_task_set, min_wait, max_wait, weighted_tasks,
                    user_weighted_bucket, user_weighted_bucket_position,
                    task_request_name, pc, seq_index, sequence, task_pos,
                    weighted_bucket, weighted_bucket_position, wait_time, slept >>
    /\ UNCHANGED << sent, sender_dropped, historyVars, urlVars, sendVars, metricVars, usersVars, buildVars >>

\* Faulty variant of SleepNeeded: max_wait = 0 does not skip the sleep.
SleepNeeded_IgnoresMaxWait == thread_continue

\* if thread_continue && thread_user.max_wait > 0 { sleep one second .. }
SleepNeeded == thread_continue /\ max_wait > 0

\* weighted_bucket_position += 1, stored to the user; back to the loop test.
AdvancePosition ==
    /\ weighted_bucket_position' = weighted_bucket_position + 1
    /\ user_weighted_bucket_position' = weighted_bucket_position + 1
    /\ pc' = "loop_head"
    /\ iterations' = (iterations + 1) % ScheduleLen(weighted_tasks)

\* try_recv() returns Err (nothing pending, or the channel is closed and
\* empty): the drain ends, and the driver sleeps a second or leaves the loop.
TryRecvErr ==
    /\ pc = "try_recv"
    /\ thread_receiver = <<>>
    /\ IF SleepNeeded
       THEN /\ pc' = "sleeping"
            /\ quantaAfterExit' =
                 IF ExitSent THEN Saturate(quantaAfterExit) ELSE quantaAfterExit
            /\ UNCHANGED << weighted_bucket_position, user_weighted_bucket_position,
                            iterations >>
       ELSE /\ AdvancePosition
            /\ UNCHANGED quantaAfterExit
    /\ UNCHANGED << thread_task_set, min_wait, max_wait, weighted_tasks,
                    user_weighted_bucket, task_request_name, seq_index, sequence,
                    task_pos, thread_continue, weighted_bucket, wait_time, slept >>
    /\ UNCHANGED << exitSentAt, tasksAfterExit, quantaEndedAfterExit, advanced, startLog,
                    bucketLog, stopLog, steadyStarted >>
    /\ UNCHANGED << channelVars, urlVars, sendVars, metricVars, usersVars, buildVars >>

\* if slept > wait_time { in_sleep_loop = false }
SleepOver(n) == n > wait_time

\* delay_for(1s) completes: slept += 1, then leave the sleep loop or drain again.
Wake ==
    /\ pc = "sleeping"
    /\ slept' = slept + 1
    /\ IF SleepOver(slept + 1)
       THEN AdvancePosition
       ELSE /\ pc' = "try_recv"
            /\ UNCHANGED << weighted_bucket_position, user_weighted_bucket_position,
                            iterations >>
    /\ UNCHANGED << thread_task_set, min_wait, max_wait, weighted_tasks,
                    user_weighted_bucket, task_request_name, seq_index, sequence,
                    task_pos, thread_continue, weighted_bucket, wait_time >>
    /\ quantaEndedAfterExit' =
         IF ExitSent THEN Saturate(quantaEndedAfterExit) ELSE quantaEndedAfterExit
    /\ UNCHANGED << exitSentAt, tasksAfterExit, quantaAfterExit, advanced, startLog,
                    bucketLog, stopLog, steadyStarted >>
    /\ UNCHANGED << channelVars, urlVars, sendVars, metricVars, usersVars, buildVars >>

\* Faulty variant of LeaveLoop: the driver returns without the on_stop phase.
LeaveLoop_SkipsOnStop ==
    /\ pc = "loop_head"
    /\ ~thread_continue
    /\ pc' = "done"
    /\ UNCHANGED << thread_task_set, min_wait, max_wait, weighted_tasks,
                    user_weighted_bucket, user_weighted_bucket_position,
                    task_request_name, seq_index, sequence, task_pos,
                    thread_continue, weighted_bucket, weighted_bucket_position,
                    wait_time, slept >>
    /\ UNCHANGED << channelVars, historyVars, urlVars, sendVars, metricVars, usersVars, buildVars >>

\* `while thread_continue` is false: on to the on_stop phase.
LeaveLoop ==
    /\ pc = "loop_head"
    /\ ~thread_continue
    /\ pc' = "on_stop"
    /\ seq_index' = 0
    /\ sequence' = <<>>
    /\ task_pos' = 0
    /\ UNCHANGED << thread_task_set, min_wait, max_wait, weighted_tasks,
                    user_weighted_bucket, user_weighted_bucket_position,
                    task_request_name, thread_continue, weighted_bucket,
                    weighted_bucket_position, wait_time, slept >>
    /\ UNCHANGED << channelVars, historyVars, urlVars, sendVars, metricVars, usersVars, buildVars >>

\* for mut sequence in weighted_on_stop_tasks.clone() { if len > 1 { shuffle } ..
OnStopNextSequence ==
    /\ pc = "on_stop"
    /\ task_pos >= Len(sequence)
    /\ seq_index < Len(thread_task_set.weighted_on_stop_tasks)
    /\ LET bucket == thread_task_set.weighted_on_stop_tasks[seq_index + 1]
       IN  sequence' \in (IF Len(bucket) > 1 THEN Shuffle(bucket) ELSE {bucket})
    /\ seq_index' = seq_index + 1
    /\ task_pos' = 0
    /\ UNCHANGED << thread_task_set, min_wait, max_wait, weighted_tasks,
                    user_weighted_bucket, user_weighted_bucket_position,
                    task_request_name, pc, thread_continue, weighted_bucket,
                    weighted_bucket_position, wait_time, slept >>
    /\ UNCHANGED << channelVars, historyVars, urlVars, sendVars, metricVars, usersVars, buildVars >>

\* .. for task_index in &sequence { set the request name; invoke the task }
OnStopInvoke ==
    /\ pc = "on_stop"
    /\ task_pos < Len(sequence)
    /\ LET task_index == sequence[task_pos + 1]
       IN  /\ task_request_name' = RequestNameFor(task_index)
           /\ stopLog' = Append(stopLog, task_index)
    /\ pc' = "on_stop_task"
    /\ UNCHANGED << thread_task_set, min_wait, max_wait, weighted_tasks,
                    user_weighted_bucket, user_weighted_bucket_position,
                    seq_index, sequence, task_pos, thread_continue,
                    weighted_bucket, weighted_bucket_position, wait_time, slept >>
    /\ UNCHANGED << exitSentAt, tasksAfterExit, quantaAfterExit, quantaEndedAfterExit,
                    advanced, startLog,
                    bucketLog, steadyStarted, iterations >>
    /\ UNCHANGED << channelVars, urlVars, sendVars, metricVars, usersVars, buildVars >>

\* The on_stop task function returns.
OnStopReturn ==
    /\ pc = "on_stop_task"
    /\ pc' = "on_stop"
    /\ task_pos' = task_pos + 1
    /\ \E result \in TaskResults : invoke_task_function(sequence[task_pos + 1], result)
    /\ UNCHANGED << thread_task_set, min_wait, max_wait, weighted_tasks,
                    user_weighted_bucket, user_weighted_bucket_position,
                    task_request_name, seq_index, sequence, thread_continue,
                    weighted_bucket, weighted_bucket_position, wait_time, slept >>
    /\ UNCHANGED << channelVars, historyVars, urlVars, sendVars, usersVars, buildVars >>

\* The on_stop phase is over: user_main returns (the receiver is dropped).
Return ==
    /\ pc = "on_stop"
    /\ task_pos >= Len(sequence)
    /\ seq_index >= Len(thread_task_set.weighted_on_stop_tasks)
    /\ pc' = "done"
    /\ UNCHANGED << thread_task_set, min_wait, max_wait, weighted_tasks,
                    user_weighted_bucket, user_weighted_bucket_position,
                    task_request_name, seq_index, sequence, task_pos,
                    thread_continue, weighted_bucket, weighted_bucket_position,
                    wait_time, slept >>
    /\ UNCHANGED << channelVars, historyVars, urlVars, sendVars, metricVars, usersVars, buildVars >>

Driver ==
    \/ OnStartNextSequence \/ OnStartInvoke \/ OnStartReturn \/ EnterLoop
    \/ SteadyInvoke \/ SteadyReturn \/ TryRecvOk \/ TryRecvErr \/ Wake
    \/ LeaveLoop \/ OnStopNextSequence \/ OnStopInvoke \/ OnStopReturn \/ Return

\* --------------------------------------------------------- the supervisor
Running == pc \notin {"done", "panicked"}

\* The supervisor sends SYNC or EXIT on the user's control channel.
SendCommand(command) ==
    /\ Running
    /\ ~sender_dropped
    /\ sent < MaxSent
    /\ thread_receiver' = Append(thread_receiver, command)
    /\ sent' = sent + 1
    /\ exitSentAt' = IF command = "EXIT" /\ ~ExitSent THEN pc ELSE exitSentAt
    /\ UNCHANGED << sender_dropped, tasksAfterExit, quantaAfterExit, quantaEndedAfterExit,
                    advanced, startLog,
                    bucketLog, stopLog, steadyStarted, iterations >>
    /\ UNCHANGED << driverVars, urlVars, sendVars, metricVars, usersVars, buildVars >>

\* The supervisor drops the sender: the channel is closed.
CloseChannel ==
    /\ Running
    /\ ~sender_dropped
    /\ sender_dropped' = TRUE
    /\ UNCHANGED << thread_receiver, sent, driverVars, historyVars, urlVars, sendVars, metricVars, usersVars, buildVars >>

Supervisor ==
    \/ \E command \in {"SYNC", "EXIT"} : SendCommand(command)
    \/ CloseChannel

\* The parent drops the receiver of the metrics channel.
DropMetricsReceiver ==
    /\ Running
    /\ ~metrics_receiver_dropped
    /\ metrics_receiver_dropped' = TRUE
    /\ UNCHANGED << no_metrics, no_task_metrics, channel_to_parent, sent_metrics,
                    send_outcome >>
    /\ UNCHANGED << driverVars, channelVars, historyVars, urlVars, sendVars, usersVars, buildVars >>

\* --------------------------------------- users sharing the metrics channel
\* Most invocations of a user in a run.
MaxTasks == 2

\* thread_user.weighted_users_index of the users running
Users == {1, 2}

\* GooseMetric::Task(raw_task) of the user's n-th invocation: the record
\* carries the user's index and the time since the user started, which grows
\* from one invocation to the next.
TaskMetric(user, n, result) ==
    [ user |-> user, started |-> n,
      task |-> RawTask((n - 1) % Len(thread_task_set.tasks), TaskSucceeded(result)) ]

\* Faulty variant of ChannelSend: the record overtakes those in the channel.
ChannelSend_Overtakes(channel, metric) == << metric >> \o channel

\* parent.send(metric) on the unbounded channel
ChannelSend(channel, metric) == Append(channel, metric)

\* A user calls invoke_task_function: the task function starts.
UserInvoke(user) ==
    /\ user_pc[user] = "idle"
    /\ user_invoked[user] < MaxTasks
    /\ user_pc' = [user_pc EXCEPT ![user] = "in_task"]
    /\ user_invoked' = [user_invoked EXCEPT ![user] = @ + 1]
    /\ invocation_order' = Append(invocation_order, user)
    /\ UNCHANGED << metrics_channel, received >>
    /\ UNCHANGED << driverVars, channelVars, historyVars, urlVars, sendVars, metricVars, buildVars >>

\* The task function returns; the record is sent on the shared channel.
UserReturn(user, result) ==
    /\ user_pc[user] = "in_task"
    /\ user_pc' = [user_pc EXCEPT ![user] = "idle"]
    /\ metrics_channel' =
         IF ~MetricsOff /\ channel_to_parent
         THEN ChannelSend(metrics_channel, TaskMetric(user, user_invoked[user], result))
         ELSE metrics_channel
    /\ UNCHANGED << user_invoked, received, invocation_order >>
    /\ UNCHANGED << driverVars, channelVars, historyVars, urlVars, sendVars, metricVars, buildVars >>

\* The parent receives the next record.
ParentReceive ==
    /\ metrics_channel # << >>
    /\ received' = Append(received, Head(metrics_channel))
    /\ metrics_channel' = Tail(metrics_channel)
    /\ UNCHANGED << user_pc, user_invoked, invocation_order >>
    /\ UNCHANGED << driverVars, channelVars, historyVars, urlVars, sendVars, metricVars, buildVars >>

\* ------------------------------------------------- GooseClient::build_url
\* A string is modelled as the sequence of its pieces: "http://prod/x" is
\* << "http:", "//", "prod", "/", "x" >>, and "" is << >>.
HostNames == {"prod", "stage", "dev", "elsewhere"}

\* Option<String>
NoHost == [some |-> FALSE, value |-> <<>>]
SomeHost(s) == [some |-> TRUE, value |-> s]

\* Url::parse(s).is_ok(), for the strings under test: a scheme followed by
\* an authority ("http://host..."), or a scheme that takes no authority
\* ("mailto:..."). A string without a scheme is a relative reference, which
\* Url::parse rejects (RelativeUrlWithoutBase).
ParseOk(s) ==
    /\ Len(s) >= 1
    /\ \/ s[1] = "http:" /\ Len(s) >= 3 /\ s[2] = "//" /\ s[3] \in HostNames
       \/ s[1] = "mailto:"

\* Url::parse(s).unwrap(): the URL's scheme, host() and path(); the empty
\* path of an http URL is normalised to "/".
Parse(s) ==
    IF s[1] = "http:"
    THEN [ scheme |-> "http:", host |-> s[3],
           path |-> IF Len(s) = 3 THEN << "/" >> ELSE SubSeq(s, 4, Len(s)) ]
    ELSE [ scheme |-> "mailto:", host |-> None, path |-> Tail(s) ]

\* Url::to_string()
UrlToString(u) ==
    << u.scheme >> \o (IF u.host # None THEN << "//", u.host >> ELSE << >>) \o u.path

\* The path up to and including its last "/" (RFC 3986, 5.2.3).
DirOf(p) ==
    LET slashes == { i \in 1..Len(p) : p[i] = "/" }
    IN  IF slashes = {} THEN << >>
        ELSE SubSeq(p, 1, CHOOSE i \in slashes : \A j \in slashes : j <= i)

\* Url::join(base, reference).is_ok(): a relative reference cannot be joined
\* onto a URL that cannot be a base (one without authority).
JoinOk(base, reference) == ParseOk(reference) \/ base.host # None

\* Url::join(base, reference).unwrap(): RFC 3986 reference resolution.
Join(base, reference) ==
    IF ParseOk(reference) THEN Parse(reference)
    ELSE IF reference = << >> THEN base
    ELSE IF reference[1] = "//"
         THEN [ base EXCEPT !.host = reference[2],
                            !.path = IF Len(reference) = 2 THEN << "/" >>
                                     ELSE SubSeq(reference, 3, Len(reference)) ]
    ELSE IF reference[1] = "/" THEN [ base EXCEPT !.path = reference ]
    ELSE [ base EXCEPT !.path = DirOf(base.path) \o reference ]

\* What a call of build_url yields: a string, or the end of the thread
\* (unwrap of None panics) or of the process (process::exit(1)).
NotCalled == [kind |-> "none", value |-> << >>]
Returned(s) == [kind |-> "returned", value |-> s]
Panicked == [kind |-> "panic", value |-> << >>]
Exited == [kind |-> "exit", value |-> << >>]

\* if let Ok(parsed_path) = Url::parse(path) { if let Some(uri) = parsed_path.host() ..
PathHasHost(path) == ParseOk(path) /\ Parse(path).host # None

\* .. return uri.to_string(): the host of the parsed path, as a string.
HostShortCircuit(path) == Returned(<< Parse(path).host >>)

\* Faulty variant of BaseHost: the task set's host comes before --host.
BaseHost_TaskSetFirst ==
    IF task_set_host.some THEN task_set_host
    ELSE IF Len(config_host) > 0 THEN SomeHost(config_host)
    ELSE default_host

\* The base: --host when config.host is not empty, else the task set's
\* host, else the test's default host (unwrapped: None panics).
BaseHost ==
    IF Len(config_host) > 0 THEN SomeHost(config_host)
    ELSE IF task_set_host.some THEN task_set_host
    ELSE default_host

\* match base_url.join(path) { Ok(url) => url.to_string(), Err(e) => exit(1) }
JoinOnto(base, path) ==
    IF JoinOk(Parse(base), path)
    THEN Returned(UrlToString(Join(Parse(base), path)))
    ELSE Exited

build_url(path) ==
    IF PathHasHost(path) THEN HostShortCircuit(path)
    ELSE IF ~BaseHost.some THEN Panicked
    ELSE JoinOnto(BaseHost.value, path)

\* Hosts given on the command line, to a task set or to the test; each has
\* been validated at startup (it parses as a URL).
HostStrings ==
    { << "http:", "//", "prod" >>,
      << "http:", "//", "stage" >>,
      << "http:", "//", "stage", "/", "api", "/" >>,
      << "http:", "//", "dev" >>,
      << "mailto:", "ops" >> }

\* Paths a task function passes to get(), post(), ...
Paths ==
    { << "/", "x" >>,
      << "x" >>,
      << >>,
      << "//", "elsewhere", "/", "y" >>,
      << "http:", "//", "elsewhere", "/", "y" >>,
      << "http:", "//", "prod" >>,
      << "mailto:", "y" >> }

\* A task function calls build_url(path) (through goose_get, goose_post, ...).
BuildUrl(path) ==
    /\ url_path' = path
    /\ url_result' = build_url(path)
    /\ UNCHANGED << config_host, task_set_host, default_host >>
    /\ UNCHANGED << driverVars, channelVars, historyVars, sendVars, metricVars, usersVars, buildVars >>

\* ------------------------------ GooseTaskSet builders, GooseClient::set_mode
\* Arguments given to set_weight.
Weights == {0, 1, 2}

\* Arguments given to set_host: hosts that parse as URLs, and two that do not.
HostArguments == HostStrings \cup { << "localhost" >>, << >> }

\* GooseClientMode
Modes == {"INIT", "HATCHING", "RUNNING", "EXITING"}

\* if weight < 1 { exit(1) } else { self.weight = weight }
set_weight(w) ==
    /\ ~exited
    /\ IF w < 1
       THEN exited' = TRUE /\ UNCHANGED weight
       ELSE weight' = w /\ UNCHANGED exited
    /\ UNCHANGED << task_set_min_wait, task_set_max_wait, host, mode >>
    /\ UNCHANGED << driverVars, channelVars, historyVars, urlVars, sendVars,
                    metricVars, usersVars >>

\* self.host = Some(host.to_string())
set_host(h) ==
    /\ ~exited
    /\ host' = SomeHost(h)
    /\ UNCHANGED << weight, task_set_min_wait, task_set_max_wait, mode, exited >>
    /\ UNCHANGED << driverVars, channelVars, historyVars, urlVars, sendVars,
                    metricVars, usersVars >>

\* if min_wait > max_wait { exit(1) }; self.min_wait = min_wait; self.max_wait = max_wait
set_wait_time(min, max) ==
    /\ ~exited
    /\ IF min > max
       THEN exited' = TRUE /\ UNCHANGED << task_set_min_wait, task_set_max_wait >>
       ELSE /\ task_set_min_wait' = min
            /\ task_set_max_wait' = max
            /\ UNCHANGED exited
    /\ UNCHANGED << weight, host, mode >>
    /\ UNCHANGED << driverVars, channelVars, historyVars, urlVars, sendVars,
                    metricVars, usersVars >>

\* self.mode = mode
set_mode(m) ==
    /\ ~exited
    /\ mode' = m
    /\ UNCHANGED << weight, task_set_min_wait, task_set_max_wait, host, exited >>
    /\ UNCHANGED << driverVars, channelVars, historyVars, urlVars, sendVars,
                    metricVars, usersVars >>

\* ------------------------------------------------ GooseClient::goose_send
MaxRequests == 2

Methods == {"GET", "POST"}

\* URLs handed to the request builder: two that build_url joined, and the
\* bare host it returns for an absolute path (no request can be built of it).
SendUrls ==
    { << "http:", "//", "prod", "/", "x" >>,
      << "http:", "//", "prod", "/", "y" >>,
      << "elsewhere" >> }

\* Status codes the server answers with.
Statuses == {200, 404}

\* Time between `started` and the response, in seconds.
Elapsed == {2}

\* HashMap::new() and HashMap::insert
EmptyMap == [k \in {} |-> 0]
MapInsert(m, k, v) == [x \in DOMAIN m \cup {k} |-> IF x = k THEN v ELSE m[x]]

\* Result<Response, Error>
NotSent == [kind |-> "none", status |-> 0, error |-> None]
HttpResponse(status) == [kind |-> "ok", status |-> status, error |-> None]
SendError(e) == [kind |-> "err", status |-> 0, error |-> e]

\* What self.client.execute(request) yields: a response, or a transport error.
Responses == { HttpResponse(status) : status \in Statuses } \cup {SendError("transport")}

\* request_builder.build().is_ok(): the URL given to the builder parsed and
\* has a host.
BuildOk(url) == ParseOk(url) /\ Parse(url).host # None

\* GooseRequest::new(path, method)
GooseRequestNew(path, method) ==
    [ path |-> path, method |-> method, response_times |-> << >>,
      status_code_counts |-> EmptyMap, success_count |-> 0, fail_count |-> 0 ]

\* started.elapsed() * 100, as seconds
ResponseTime(elapsed) == elapsed * 100

\* self.response_times.push(response_time)
set_response_time(request, response_time) ==
    [request EXCEPT !.response_times = Append(@, response_time)]

\* Option<StatusCode>
NoStatus == [some |-> FALSE, value |-> 0]
SomeStatus(status) == [some |-> TRUE, value |-> status]

\* match status_code { Some(s) => s.as_u16(), _ => 0 }
StatusU16(status_code) == IF status_code.some THEN status_code.value ELSE 0

\* The counter of the status code is incremented, starting at 1.
set_status_code(request, status_code) ==
    LET status_code_u16 == StatusU16(status_code)
        counts == request.status_code_counts
        counter == IF status_code_u16 \in DOMAIN counts
                   THEN counts[status_code_u16] + 1 ELSE 1
    IN  [request EXCEPT !.status_code_counts = MapInsert(counts, status_code_u16, counter)]

\* Faulty variant of RequestKey: the method is left out of the key.
RequestKey_NoMethod(method, path) == path

\* format!("{:?} {}", method, path)
RequestKey(method, path) == << method, " " >> \o path

\* self.requests.get(&key), or a new GooseRequest
get_request(path, method) ==
    IF RequestKey(method, path) \in DOMAIN requests
    THEN requests[RequestKey(method, path)]
    ELSE GooseRequestNew(path, method)

\* self.requests.insert(key, request.clone())
set_request(path, method, request) ==
    MapInsert(requests, RequestKey(method, path), request)

\* Faulty variant of is_success: every status from 200 up is a success.
is_success_NoUpperBound(status) == 200 <= status

\* StatusCode::is_success(): 200..=299
is_success(status) == 200 <= status /\ status < 300

\* Faulty variant of RecordStatus: the flag status_codes is not consulted.
RecordStatus_IgnoresFlag(request, response) ==
    set_status_code(request, IF response.kind = "ok" THEN SomeStatus(response.status)
                             ELSE NoStatus)

\* Faulty variant of RecordStatus: a transport failure is not counted under 0.
RecordStatus_SkipsErrors(request, response) ==
    IF status_codes /\ response.kind = "ok"
    THEN set_status_code(request, SomeStatus(response.status))
    ELSE request

\* if self.config.status_codes { goose_request.set_status_code(..) }: Some(status)
\* for a response, None for a transport error.
RecordStatus(request, response) ==
    IF status_codes
    THEN set_status_code(request, IF response.kind = "ok" THEN SomeStatus(response.status)
                                  ELSE NoStatus)
    ELSE request

\* Faulty variant of CountResponse: a transport error is counted nowhere.
CountResponse_SkipsErrors(request, response) ==
    IF response.kind = "ok" /\ is_success(response.status)
    THEN [request EXCEPT !.success_count = @ + 1]
    ELSE IF response.kind = "ok" THEN [request EXCEPT !.fail_count = @ + 1]
    ELSE request

\* success_count += 1 for a 2xx response; fail_count += 1 for any other
\* response and for a transport error.
CountResponse(request, response) ==
    IF response.kind = "ok" /\ is_success(response.status)
    THEN [request EXCEPT !.success_count = @ + 1]
    ELSE [request EXCEPT !.fail_count = @ + 1]

\* The path of the request's URL.
RequestPath(url) == Parse(url).path

\* The task's request name when it is set, else the path.
RequestName(url) ==
    IF task_request_name # None THEN << task_request_name >> ELSE RequestPath(url)

\* if self.config.print_stats { get the record, update it, put it back }
Recorded(method, url, response, elapsed) ==
    LET request_name == RequestName(url)
        goose_request == get_request(request_name, method)
        timed == set_response_time(goose_request, ResponseTime(elapsed))
    IN  set_request(request_name, method,
                    CountResponse(RecordStatus(timed, response), response))

\* A task function calls goose_send with a request builder for (method, url);
\* the server answers with `response` after `elapsed` seconds.
goose_send(method, url, response, elapsed) ==
    /\ num_requests < MaxRequests
    /\ num_requests' = num_requests + 1
    /\ IF ~BuildOk(url)
       THEN /\ send_result' = SendError("builder")
            /\ UNCHANGED << requests, transport_failures >>
       ELSE /\ send_result' = response
            /\ IF print_stats
               THEN /\ requests' = Recorded(method, url, response, elapsed)
                    /\ transport_failures' =
                         IF response.kind = "err"
                         THEN LET key == RequestKey(method, RequestName(url))
                              IN  MapInsert(transport_failures, key,
                                            IF key \in DOMAIN transport_failures
                                            THEN transport_failures[key] + 1 ELSE 1)
                         ELSE transport_failures
               ELSE UNCHANGED << requests, transport_failures >>
    /\ UNCHANGED << print_stats, status_codes >>
    /\ UNCHANGED << driverVars, channelVars, historyVars, urlVars, metricVars, usersVars, buildVars >>

\* The driver turns to the next task: its name becomes the request name.
StartTask(task_index) ==
    /\ task_request_name' = RequestNameFor(task_index)
    /\ UNCHANGED << thread_task_set, min_wait, max_wait, weighted_tasks,
                    user_weighted_bucket, user_weighted_bucket_position, pc,
                    seq_index, sequence, task_pos, thread_continue,
                    weighted_bucket, weighted_bucket_position, wait_time, slept >>
    /\ UNCHANGED << channelVars, historyVars, urlVars, sendVars, metricVars, usersVars, buildVars >>

\* ------------------------------------------------------------ specification
UrlIdle ==
    /\ config_host = <<>>
    /\ task_set_host = NoHost
    /\ default_host = NoHost
    /\ url_path = <<>>
    /\ url_result = NotCalled

\* One user only: nothing is on the metrics channel.
UsersIdle ==
    /\ user_pc = << >>
    /\ user_invoked = << >>
    /\ metrics_channel = << >>
    /\ received = << >>
    /\ invocation_order = << >>

\* Metrics are off: no invocation sends a record.
MetricsIdle ==
    /\ no_metrics = TRUE
    /\ no_task_metrics = FALSE
    /\ channel_to_parent = TRUE
    /\ metrics_receiver_dropped = FALSE
    /\ sent_metrics = << >>
    /\ send_outcome = "none"

\* GooseTaskSet::new and GooseClient::new
BuildIdle ==
    /\ weight = 1
    /\ task_set_min_wait = 0
    /\ task_set_max_wait = 0
    /\ host = NoHost
    /\ mode = "INIT"
    /\ exited = FALSE

\* No request has been sent: the recorder is empty.
SendIdle ==
    /\ requests = EmptyMap
    /\ send_result = NotSent
    /\ num_requests = 0
    /\ transport_failures = EmptyMap

\* user_main begins: nothing has been invoked, sent or received.
UserStarts ==
    /\ weighted_tasks = thread_task_set.weighted_tasks
    /\ user_weighted_bucket = 0
    /\ user_weighted_bucket_position = 0
    /\ task_request_name = None
    /\ pc = "on_start"
    /\ seq_index = 0
    /\ sequence = <<>>
    /\ task_pos = 0
    /\ thread_continue = TRUE
    /\ weighted_bucket = 0
    /\ weighted_bucket_position = 0
    /\ wait_time = 0
    /\ slept = 0
    /\ thread_receiver = <<>>
    /\ sent = 0
    /\ sender_dropped = FALSE
    /\ exitSentAt = None
    /\ tasksAfterExit = 0
    /\ quantaAfterExit = 0
    /\ quantaEndedAfterExit = 0
    /\ advanced = FALSE
    /\ startLog = <<>>
    /\ bucketLog = <<>>
    /\ stopLog = <<>>
    /\ steadyStarted = FALSE
    /\ iterations = 0

Init ==
    /\ thread_task_set \in TaskSets
    /\ max_wait \in 0..MaxWait
    /\ min_wait \in 0..max_wait
    /\ UserStarts
    /\ UrlIdle
    /\ print_stats = TRUE
    /\ status_codes = FALSE
    /\ SendIdle
    /\ MetricsIdle
    /\ UsersIdle
    /\ BuildIdle

Next == Driver \/ Supervisor

Spec == Init /\ [][Next]_vars

\* The runtime keeps polling the driver's task, a task function that has been
\* called returns, and a one-second delay elapses.
FairSpec == Spec /\ WF_vars(Driver)

\* --- build_url on its own: the three hosts are drawn at the start, and a
\* task function of a running user calls build_url with each path.
InTaskFunction ==
    /\ thread_task_set \in { t \in TaskSets : t.tasks = << "login", "", "logout" >> }
    /\ min_wait = 0
    /\ max_wait = 0
    /\ weighted_tasks = thread_task_set.weighted_tasks
    /\ user_weighted_bucket = 0
    /\ user_weighted_bucket_position = 0
    /\ task_request_name = None
    /\ pc = "steady_task"
    /\ seq_index = 1
    /\ sequence = << 0 >>
    /\ task_pos = 1
    /\ thread_continue = TRUE
    /\ weighted_bucket = 0
    /\ weighted_bucket_position = 0
    /\ wait_time = 0
    /\ slept = 0
    /\ thread_receiver = <<>>
    /\ sent = 0
    /\ sender_dropped = FALSE
    /\ exitSentAt = None
    /\ tasksAfterExit = 0
    /\ quantaAfterExit = 0
    /\ quantaEndedAfterExit = 0
    /\ advanced = FALSE
    /\ startLog = << 0 >>
    /\ bucketLog = << 1 >>
    /\ stopLog = <<>>
    /\ steadyStarted = TRUE
    /\ iterations = 0

InitUrl ==
    /\ config_host \in {<< >>} \cup HostStrings
    /\ task_set_host \in {NoHost} \cup { SomeHost(h) : h \in HostStrings }
    /\ default_host \in {NoHost} \cup { SomeHost(h) : h \in HostStrings }
    /\ url_path = << >>
    /\ url_result = NotCalled
    /\ InTaskFunction
    /\ print_stats = TRUE
    /\ status_codes = FALSE
    /\ SendIdle
    /\ MetricsIdle
    /\ UsersIdle
    /\ BuildIdle

NextUrl == \E path \in Paths : BuildUrl(path)

SpecUrl == InitUrl /\ [][NextUrl]_vars

\* --- goose_send on its own: the two flags are drawn at the start; the user
\* is in its steady phase, the driver names task after task and the task
\* functions send requests.
InitSend ==
    /\ print_stats \in BOOLEAN
    /\ status_codes \in BOOLEAN
    /\ SendIdle
    /\ UrlIdle
    /\ InTaskFunction
    /\ MetricsIdle
    /\ UsersIdle
    /\ BuildIdle

NextSend ==
    \/ \E task_index \in 0..(Len(thread_task_set.tasks) - 1) : StartTask(task_index)
    \/ \E method \in Methods, url \in SendUrls, response \in Responses,
          elapsed \in Elapsed : goose_send(method, url, response, elapsed)

SpecSend == InitSend /\ [][NextSend]_vars

\* --- a user whose task functions succeed or fail, with the metrics flags and
\* the sender drawn at the start, and a parent that may drop the receiver.
InitTask ==
    /\ thread_task_set \in TaskSets
    /\ max_wait \in {0, 1}
    /\ min_wait = 0
    /\ UserStarts
    /\ UrlIdle
    /\ print_stats = TRUE
    /\ status_codes = FALSE
    /\ SendIdle
    /\ no_metrics \in BOOLEAN
    /\ no_task_metrics \in BOOLEAN
    /\ channel_to_parent \in BOOLEAN
    /\ metrics_receiver_dropped = FALSE
    /\ sent_metrics = << >>
    /\ send_outcome = "none"
    /\ UsersIdle
    /\ BuildIdle

NextTask == Driver \/ Supervisor \/ DropMetricsReceiver

SpecTask == InitTask /\ [][NextTask]_vars

\* --- several users of one task set, each invoking task after task, and the
\* parent receiving their records; metrics are on.
InitUsers ==
    /\ user_pc = [user \in Users |-> "idle"]
    /\ user_invoked = [user \in Users |-> 0]
    /\ metrics_channel = << >>
    /\ received = << >>
    /\ invocation_order = << >>
    /\ no_metrics = FALSE
    /\ no_task_metrics = FALSE
    /\ channel_to_parent = TRUE
    /\ metrics_receiver_dropped = FALSE
    /\ sent_metrics = << >>
    /\ send_outcome = "none"
    /\ InTaskFunction
    /\ UrlIdle
    /\ print_stats = TRUE
    /\ status_codes = FALSE
    /\ SendIdle
    /\ BuildIdle

NextUsers ==
    \/ \E user \in Users : UserInvoke(user)
    \/ \E user \in Users, result \in TaskResults : UserReturn(user, result)
    \/ ParentReceive

SpecUsers == InitUsers /\ [][NextUsers]_vars

\* --- the load test's configuration: a task set is built call by call, and
\* the mode of a client is set.
InitBuild ==
    /\ BuildIdle
    /\ thread_task_set \in { t \in TaskSets : t.tasks = << "login", "", "logout" >> }
    /\ min_wait = 0
    /\ max_wait = 0
    /\ UserStarts
    /\ UrlIdle
    /\ print_stats = TRUE
    /\ status_codes = FALSE
    /\ SendIdle
    /\ MetricsIdle
    /\ UsersIdle

NextBuild ==
    \/ \E w \in Weights : set_weight(w)
    \/ \E h \in HostArguments : set_host(h)
    \/ \E min \in 0..MaxWait, max \in 0..MaxWait : set_wait_time(min, max)
    \/ \E m \in Modes : set_mode(m)

SpecBuild == InitBuild /\ [][NextBuild]_vars

\* ====================================================================== claims
InOnStart == pc \in {"on_start", "on_start_task"}
InSteady == pc \in {"loop_head", "steady_task", "try_recv", "sleeping"}
InOnStop == pc \in {"on_stop", "on_stop_task"}

\* Concatenation of the buckets of a schedule.
RECURSIVE Flatten(_)
Flatten(sched) ==
    IF sched = <<>> THEN <<>> ELSE Head(sched) \o Flatten(Tail(sched))

\* Where bucket k of a schedule begins in the concatenation of its buckets.
RECURSIVE Offset(_, _)
Offset(sched, k) == IF k <= 1 THEN 0 ELSE Offset(sched, k - 1) + Len(sched[k - 1])

Min(a, b) == IF a <= b THEN a ELSE b

\* The part of a log that falls into bucket k of the schedule.
Segment(log, sched, k) ==
    SubSeq(log, Offset(sched, k) + 1, Min(Offset(sched, k) + Len(sched[k]), Len(log)))

\* The log walks the schedule bucket by bucket: what it holds of bucket k
\* are entries of bucket k, none more often than the bucket lists it.
WalksSchedule(log, sched) ==
    /\ Len(log) <= Len(Flatten(sched))
    /\ \A k \in 1..Len(sched) :
         \A i \in 1..Len(Segment(log, sched, k)) :
           LET v == Segment(log, sched, k)[i]
           IN  /\ v \in Range(sched[k])
               /\ Count(Segment(log, sched, k), v) <= Count(sched[k], v)

\* The log holds every entry of the schedule exactly once, bucket after bucket.
CompletesSchedule(log, sched) ==
    WalksSchedule(log, sched) /\ Len(log) = Len(Flatten(sched))

IsPermutation(s, t) ==
    Len(s) = Len(t) /\ \A v \in Range(s) \cup Range(t) : Count(s, v) = Count(t, v)

\* C1: once EXIT has been sent on the control channel the driver starts no
\* further steady task invocation, and it has invoked every on_stop task
\* when it returns.
C1_NoSteadyTaskAfterExit ==
    /\ ExitSent => tasksAfterExit = 0
    /\ pc = "done" => CompletesSchedule(stopLog, thread_task_set.weighted_on_stop_tasks)

\* C2: the driver treats the closing of the control channel as EXIT: a drain
\* that finds the channel closed and empty leaves thread_continue false.
C2_ClosureTreatedAsExit ==
    [][ ( /\ pc = "try_recv"
          /\ thread_receiver = <<>>
          /\ sender_dropped
          /\ pc' # "try_recv" ) => ~thread_continue' ]_vars

\* C3: once EXIT has been sent, the driver eventually returns, the on_stop
\* phase done.
C3_ExitLeadsToReturn == ExitSent ~> (pc = "done")

\* What does hold under FairSpec: EXIT leads to the return whenever the
\* draw of the wait cannot panic.
ExitLeadsToReturnUnlessPanic ==
    (ExitSent /\ (max_wait = 0 \/ min_wait < max_wait)) ~> (pc = "done")

\* The two halves of C4. What has been invoked since a bucket was entered is the
\* bucket's current order up to the cursor; the cursor leaves a bucket only
\* when that is the whole bucket, a permutation of the bucket as built, and
\* it then enters the next bucket (the first after the last) at position 0.
C4_CursorInBucket ==
    pc = "steady_task" =>
        bucketLog = SubSeq(weighted_tasks[weighted_bucket + 1], 1, weighted_bucket_position + 1)

C4_StepInOrder ==
    (pc = "loop_head" /\ pc' = "steady_task") =>
        IF Len(bucketLog) = Len(weighted_tasks[weighted_bucket + 1])
        THEN /\ IsPermutation(bucketLog,
                              thread_task_set.weighted_tasks[weighted_bucket + 1])
             /\ weighted_bucket' = (weighted_bucket + 1) % Len(weighted_tasks)
             /\ weighted_bucket_position' = 0
        ELSE /\ weighted_bucket' = weighted_bucket
             /\ weighted_bucket_position' = Len(bucketLog)
             /\ weighted_tasks' = weighted_tasks

\* C4: in the steady loop the invocations follow the cursor through each
\* bucket, and the buckets follow each other in schedule order, wrapping.
C4_BucketWalk == []C4_CursorInBucket /\ [][C4_StepInOrder]_vars

\* The cursor has wrapped into a bucket shuffled to another order and has
\* walked all of it in that order.
C4_Witness ==
    /\ pc = "steady_task"
    /\ thread_task_set.weighted_tasks = << <<3, 4>> >>
    /\ weighted_tasks = << <<4, 3>> >>
    /\ bucketLog = <<4, 3>>
    /\ ~ExitSent

\* C5: on_start invocations precede the steady ones, which precede the
\* on_stop ones; each on_start entry and each on_stop entry is invoked once,
\* bucket after bucket.
C5_PhaseOrder ==
    /\ WalksSchedule(startLog, thread_task_set.weighted_on_start_tasks)
    /\ WalksSchedule(stopLog, thread_task_set.weighted_on_stop_tasks)
    /\ InOnStart => ~steadyStarted /\ stopLog = <<>>
    /\ (InSteady \/ steadyStarted) =>
          CompletesSchedule(startLog, thread_task_set.weighted_on_start_tasks)
    /\ InSteady => stopLog = <<>>
    /\ (InOnStop \/ stopLog # <<>>) =>
          /\ CompletesSchedule(startLog, thread_task_set.weighted_on_start_tasks)
          /\ pc \in {"on_stop", "on_stop_task", "done"}
    /\ pc = "done" =>
          CompletesSchedule(stopLog, thread_task_set.weighted_on_stop_tasks)

\* A run with two on_start buckets, steady tasks and two on_stop tasks has
\* returned, its on_stop bucket walked in the other order.
C5_Witness ==
    /\ pc = "done"
    /\ Len(startLog) = 3
    /\ steadyStarted
    /\ stopLog = <<6, 5>>

\* C6: with max_wait > 0 and no EXIT, the number of one-second quanta slept
\* between two steady invocations lies in [min_wait, max_wait).
C6_SleepWithinRange ==
    ( /\ pc = "loop_head"
      /\ steadyStarted
      /\ thread_continue
      /\ max_wait > 0
      /\ ~ExitSent ) => (min_wait <= slept /\ slept < max_wait)

\* C7: with max_wait = 0 the driver never sleeps.
C7_NoSleepWhenMaxWaitZero ==
    max_wait = 0 => (pc # "sleeping" /\ slept = 0 /\ wait_time = 0)

\* With max_wait = 0, a second steady invocation follows the first.
C7_Witness ==
    /\ max_wait = 0
    /\ pc = "steady_task"
    /\ Len(bucketLog) = 2
    /\ ~ExitSent

\* C8: when EXIT is sent while the driver sleeps (min_wait = 0), the driver
\* starts no further sleep quantum and no further steady task.
C8_ExitDuringSleep ==
    (min_wait = 0 /\ exitSentAt = "sleeping") =>
        (tasksAfterExit = 0 /\ quantaAfterExit = 0)

\* C9: for a path that is not an absolute URL, build_url joins the path onto
\* --host when it is set, else onto the task set's host when it is set, else
\* onto the default host.
C9_HostPrecedence ==
    (url_result # NotCalled /\ ~ParseOk(url_path)) =>
        /\ Len(config_host) > 0 => url_result = JoinOnto(config_host, url_path)
        /\ (Len(config_host) = 0 /\ task_set_host.some) =>
              url_result = JoinOnto(task_set_host.value, url_path)
        /\ (Len(config_host) = 0 /\ ~task_set_host.some /\ default_host.some) =>
              url_result = JoinOnto(default_host.value, url_path)
        /\ ( /\ url_path = << "/", "x" >>
             /\ config_host = << "http:", "//", "prod" >>
             /\ task_set_host = SomeHost(<< "http:", "//", "stage" >>)
             /\ default_host = SomeHost(<< "http:", "//", "dev" >>) ) =>
              url_result = Returned(<< "http:", "//", "prod", "/", "x" >>)
        /\ ( /\ url_path = << "/", "x" >>
             /\ config_host = << >>
             /\ task_set_host = SomeHost(<< "http:", "//", "stage" >>)
             /\ default_host = SomeHost(<< "http:", "//", "dev" >>) ) =>
              url_result = Returned(<< "http:", "//", "stage", "/", "x" >>)
        /\ ( /\ url_path = << "/", "x" >>
             /\ config_host = << >>
             /\ task_set_host = NoHost
             /\ default_host = SomeHost(<< "http:", "//", "dev" >>) ) =>
              url_result = Returned(<< "http:", "//", "dev", "/", "x" >>)

\* --host is prod, the task set's host is stage, the default host is dev, and
\* /x has been resolved.
C9_Witness ==
    /\ config_host = << "http:", "//", "prod" >>
    /\ task_set_host = SomeHost(<< "http:", "//", "stage" >>)
    /\ default_host = SomeHost(<< "http:", "//", "dev" >>)
    /\ url_path = << "/", "x" >>
    /\ url_result = Returned(<< "http:", "//", "prod", "/", "x" >>)

\* C10: a path that parses as an absolute URL with a host is returned unchanged.
C10_AbsoluteUrlUnchanged ==
    (url_result # NotCalled /\ PathHasHost(url_path)) => url_result = Returned(url_path)

\* C11: a relative path with --host, the task set's host and the default
\* host all absent makes build_url fail with an error outcome that the caller
\* receives (no URL is returned).
C11_NoHostIsAnError ==
    ( /\ url_result # NotCalled
      /\ ~ParseOk(url_path)
      /\ Len(config_host) = 0
      /\ ~task_set_host.some
      /\ ~default_host.some ) => url_result.kind = "error"

\* C12: a path that cannot be joined onto the base does not end the process.
C12_JoinFailureNotFatal ==
    (url_result # NotCalled /\ ~PathHasHost(url_path) /\ BaseHost.some
        /\ ~JoinOk(Parse(BaseHost.value), url_path)) => url_result # Exited

\* What a recorder holds under a key (nothing when the key is absent).
Samples(recorder, key) ==
    IF key \in DOMAIN recorder THEN Len(recorder[key].response_times) ELSE 0
Successes(recorder, key) ==
    IF key \in DOMAIN recorder THEN recorder[key].success_count ELSE 0
Failures(recorder, key) ==
    IF key \in DOMAIN recorder THEN recorder[key].fail_count ELSE 0
CodeCounts(recorder, key) ==
    IF key \in DOMAIN recorder THEN recorder[key].status_code_counts ELSE EmptyMap
CodeCount(recorder, key, code) ==
    IF code \in DOMAIN CodeCounts(recorder, key) THEN CodeCounts(recorder, key)[code] ELSE 0

\* URLs of which a request can be built.
ExecutableUrls == { url \in SendUrls : BuildOk(url) }

\* This step is goose_send(method, url, ..) getting `response` after `elapsed`.
Sends(method, url, response, elapsed) ==
    /\ num_requests' = num_requests + 1
    /\ send_result' = response
    /\ goose_send(method, url, response, elapsed)

\* A request that cannot be built is returned as an error and leaves the
\* recorder as it is (the second half of C12 says it is recorded as a failure).
BuildFailureLeavesRecorder ==
    [][\A method \in Methods, url \in SendUrls \ ExecutableUrls,
          response \in Responses, elapsed \in Elapsed :
          goose_send(method, url, response, elapsed) =>
              (send_result' = SendError("builder") /\ requests' = requests)]_vars

\* C13: in every request record, success_count + fail_count is the number
\* of response-time samples of the record.
C13_CountsMatchSamples ==
    \A key \in DOMAIN requests :
        requests[key].success_count + requests[key].fail_count
            = Len(requests[key].response_times)

\* One record has counted a success and a failure, and holds two samples.
C13_Witness ==
    \E key \in DOMAIN requests :
        /\ requests[key].success_count = 1
        /\ requests[key].fail_count = 1
        /\ Len(requests[key].response_times) = 2

\* With status_codes (and statistics) enabled, the count under code 0 of a
\* record is the number of transport failures recorded on it.
C14_ZeroCountsTransportFailures ==
    status_codes =>
        \A key \in DOMAIN requests \cup DOMAIN transport_failures :
            CodeCount(requests, key, 0) =
                (IF key \in DOMAIN transport_failures THEN transport_failures[key] ELSE 0)

\* A transport failure adds one sample, one failure and one to the count
\* under 0 of its record, and is returned; a response leaves every count
\* under 0 as it is.
C14_Step ==
    \A method \in Methods, url \in ExecutableUrls, response \in Responses,
       elapsed \in Elapsed :
        (status_codes /\ print_stats /\ Sends(method, url, response, elapsed)) =>
            LET key == RequestKey(method, RequestName(url))
            IN  IF response.kind = "err"
                THEN /\ Samples(requests', key) = Samples(requests, key) + 1
                     /\ Failures(requests', key) = Failures(requests, key) + 1
                     /\ Successes(requests', key) = Successes(requests, key)
                     /\ CodeCount(requests', key, 0) = CodeCount(requests, key, 0) + 1
                     /\ send_result' = SendError("transport")
                ELSE \A k \in DOMAIN requests' :
                        CodeCount(requests', k, 0) = CodeCount(requests, k, 0)

\* C14: with status_codes enabled, each transport failure adds exactly one
\* sample, one failure and one to the count under status code 0 of its
\* record, and the error is returned; no response changes a count under 0,
\* so that count equals the number of transport failures recorded.
C14_TransportFailures == []C14_ZeroCountsTransportFailures /\ [][C14_Step]_vars

\* Two transport failures have been recorded on one record.
C14_Witness ==
    /\ status_codes
    /\ \E key \in DOMAIN requests :
         /\ CodeCount(requests, key, 0) = 2
         /\ requests[key].fail_count = 2
    /\ send_result = SendError("transport")

C15_Step ==
    \A method \in Methods, url \in ExecutableUrls, status \in Statuses,
       elapsed \in Elapsed :
        Sends(method, url, HttpResponse(status), elapsed) =>
            LET key == RequestKey(method, RequestName(url))
            IN  /\ send_result' = HttpResponse(status)
                /\ send_result'.kind = "ok"
                /\ print_stats =>
                     /\ Successes(requests', key) = Successes(requests, key)
                            + (IF status \in 200..299 THEN 1 ELSE 0)
                     /\ Failures(requests', key) = Failures(requests, key)
                            + (IF status \in 200..299 THEN 0 ELSE 1)
                     /\ status_codes =>
                            CodeCount(requests', key, status)
                                = CodeCount(requests, key, status) + 1

\* C15: a 2xx response adds one to the success count of its record and
\* nothing to its failure count; any other response adds one to the failure
\* count and nothing to the success count, and its status code is counted;
\* either way the response is returned as Ok.
C15_ResponseCounted == [][C15_Step]_vars

\* A 200 and then a 404 have been counted on one record, each under its code.
C15_Witness ==
    /\ status_codes
    /\ send_result = HttpResponse(404)
    /\ \E key \in DOMAIN requests :
         /\ requests[key].success_count = 1
         /\ requests[key].fail_count = 1
         /\ CodeCount(requests, key, 200) = 1
         /\ CodeCount(requests, key, 404) = 1

C16_Step ==
    /\ ~status_codes =>
         \A key \in DOMAIN requests' :
            CodeCounts(requests', key) = CodeCounts(requests, key)
    /\ ~print_stats => requests' = requests
    /\ \A method \in Methods, url \in ExecutableUrls, response \in Responses,
          elapsed \in Elapsed :
           (print_stats /\ Sends(method, url, response, elapsed)) =>
               LET key == RequestKey(method, RequestName(url))
               IN  Samples(requests', key) = Samples(requests, key) + 1

\* C16: status-code counts change only when status_codes is enabled; with
\* statistics enabled every executed request stores one sample; with
\* statistics disabled goose_send leaves the recorder unchanged.
C16_FlagsGateRecording == [][C16_Step]_vars

\* Statistics on, status codes off: a record holds two samples and no
\* status-code count.
C16_Witness ==
    /\ print_stats
    /\ ~status_codes
    /\ \E key \in DOMAIN requests :
         /\ Len(requests[key].response_times) = 2
         /\ requests[key].status_code_counts = EmptyMap

\* The keys whose record is new or has changed in this step.
UpdatedKeys ==
    { key \in DOMAIN requests' : key \notin DOMAIN requests \/ requests'[key] # requests[key] }

C17_Step ==
    /\ DOMAIN requests \subseteq DOMAIN requests'
    /\ \A method \in Methods, url \in ExecutableUrls, response \in Responses,
          elapsed \in Elapsed :
           (print_stats /\ Sends(method, url, response, elapsed)) =>
               LET name == IF task_request_name # None THEN << task_request_name >>
                           ELSE Parse(url).path
               IN  /\ Cardinality(UpdatedKeys) = 1
                   /\ \A key \in UpdatedKeys :
                        /\ requests'[key].method = method
                        /\ requests'[key].path = name
                        /\ key \in DOMAIN requests =>
                             /\ requests[key].method = method
                             /\ requests[key].path = name

\* C17: a recorded request updates exactly one record, that of its method
\* and its name (the task's request name when set, else the path of the
\* URL); no other record changes, and requests of different methods never
\* update the same record.
C17_OneRecordPerMethodAndName == [][C17_Step]_vars

\* GET /x and POST /x have each been recorded, in two records.
C17_Witness ==
    /\ task_request_name = None
    /\ \E k1 \in DOMAIN requests, k2 \in DOMAIN requests :
         /\ k1 # k2
         /\ requests[k1].path = << "/", "x" >> /\ requests[k1].method = "GET"
         /\ requests[k2].path = << "/", "x" >> /\ requests[k2].method = "POST"
         /\ Len(requests[k1].response_times) = 1
         /\ Len(requests[k2].response_times) = 1

\* The task whose function is running.
CurrentTask ==
    IF pc = "steady_task"
    THEN weighted_tasks[weighted_bucket + 1][weighted_bucket_position + 1]
    ELSE sequence[task_pos + 1]

\* The step in which a task function returns.
TaskReturns == pc \in {"on_start_task", "steady_task", "on_stop_task"} /\ pc' # pc

\* The driver goes on within the phase it is in: to the next entry of the
\* on_start or on_stop sequence, or to the drain and sleep of the steady loop.
DriverContinues ==
    /\ pc = "on_start_task" =>
         /\ pc' = "on_start"
         /\ task_pos' = task_pos + 1
         /\ sequence' = sequence /\ seq_index' = seq_index
    /\ pc = "on_stop_task" =>
         /\ pc' = "on_stop"
         /\ task_pos' = task_pos + 1
         /\ sequence' = sequence /\ seq_index' = seq_index
    /\ pc = "steady_task" =>
         /\ pc' = "try_recv"
         /\ thread_continue' = thread_continue
         /\ weighted_bucket' = weighted_bucket
         /\ weighted_bucket_position' = weighted_bucket_position
         /\ weighted_tasks' = weighted_tasks

C18_Step ==
    IF TaskReturns
    THEN /\ (~no_metrics /\ ~no_task_metrics /\ channel_to_parent) =>
              /\ Len(sent_metrics') = 1
              /\ sent_metrics'[1].task_index = CurrentTask
              /\ sent_metrics'[1].name = TaskName(CurrentTask)
         /\ (no_metrics \/ no_task_metrics) =>
              (sent_metrics' = << >> /\ send_outcome' = "none")
         /\ metrics_receiver_dropped => send_outcome' \in {"Err", "none"}
         /\ DriverContinues
    ELSE sent_metrics' = sent_metrics /\ send_outcome' = send_outcome

\* C18: an invocation sends exactly one Task record when neither no_metrics
\* nor no_task_metrics is set (and the user holds a sender), and none when
\* either is set; the driver goes on in the same way whether or not the send
\* failed.
C18_OneRecordPerInvocation == [][C18_Step]_vars

\* The send of a steady task's record failed (the receiver is gone), and
\* the driver has invoked the next task of the bucket.
C18_Witness ==
    /\ metrics_receiver_dropped
    /\ send_outcome = "Err"
    /\ pc = "steady_task"
    /\ Len(bucketLog) = 2
    /\ Len(sent_metrics) = 1
    /\ sent_metrics[1].task_index = bucketLog[1]

C20_Step ==
    TaskReturns =>
        /\ DriverContinues
        /\ \A result \in TaskResults :
             (invoke_task_function(CurrentTask, result) /\ sent_metrics' # << >>) =>
                 sent_metrics'[1].success = (result = "Ok")

\* C20: when a task function returns a failure the driver neither stops nor
\* leaves the phase it is in; the invocation's record has success = FALSE,
\* and the driver goes on to the next scheduled task as after a success.
C20_FailureDoesNotStopDriver ==
    [](pc # "panicked") /\ [][C20_Step]_vars

\* The first task of an on_stop bucket has failed, and the second one runs.
C20_Witness ==
    /\ pc = "on_stop_task"
    /\ task_pos = 1
    /\ Len(sent_metrics) = 1
    /\ sent_metrics[1].task_index = sequence[1]
    /\ ~sent_metrics[1].success

\* C19: with several users sending on the shared metrics channel, the parent
\* receives the Task records of any one user in the order in which that user
\* invoked the tasks, under every interleaving.
C19_PerUserOrder ==
    \A i \in 1..Len(received), j \in 1..Len(received) :
        (i < j /\ received[i].user = received[j].user) =>
            received[i].started < received[j].started

\* Both users' records have all been received, each user's in its order;
\* between the users the order is not that of the invocations: user 1
\* invoked first, and the record of user 2 came first.
C19_Witness ==
    /\ invocation_order = << 1, 2, 1, 2 >>
    /\ Len(received) = 4
    /\ received[1].user = 2 /\ received[1].started = 1
    /\ received[2].user = 1 /\ received[2].started = 1
    /\ received[3].user = 1 /\ received[3].started = 2
    /\ received[4].user = 2 /\ received[4].started = 2

\* C23: while a steady task function is being invoked, the cursor published
\* in the user's atomic fields is the bucket and the position the driver uses
\* for the invocation.
C23_PublishedCursorIsCurrent ==
    pc = "steady_task" =>
        /\ user_weighted_bucket = weighted_bucket
        /\ user_weighted_bucket_position = weighted_bucket_position

\* (bucket, position) is an entry of the steady schedule.
ValidCursor(bucket, position) ==
    /\ bucket < Len(weighted_tasks)
    /\ position < Len(weighted_tasks[bucket + 1])

\* C24: while the driver is in the steady loop (every bucket non-empty), its
\* cursor and the cursor it publishes both refer to an entry of the schedule.
C24_CursorValid ==
    ( /\ InSteady
      /\ weighted_tasks # << >>
      /\ \A k \in 1..Len(weighted_tasks) : weighted_tasks[k] # << >> ) =>
        /\ ValidCursor(weighted_bucket, weighted_bucket_position)
        /\ ValidCursor(user_weighted_bucket, user_weighted_bucket_position)

\* C26: during the invocation of a task, task_request_name is the task's
\* name when that is not empty, and unset when it is empty.
C26_RequestNameFollowsTask ==
    pc \in {"on_start_task", "steady_task", "on_stop_task"} =>
        task_request_name =
            (IF TaskName(CurrentTask) # "" THEN TaskName(CurrentTask) ELSE None)

\* C29: every recorded response time is the time that elapsed between the
\* dispatch of the request and its completion, with no multiplier applied.
C29_SampleIsElapsed ==
    \A key \in DOMAIN requests :
        \A i \in 1..Len(requests[key].response_times) :
            requests[key].response_times[i] \in Elapsed

\* C30: for wait bounds that set_wait_time accepts (min_wait <= max_wait),
\* the draw of the wait after a task yields a value and the driver goes on to
\* the sleep loop; it never aborts while computing the wait.
C30_WaitDrawYieldsValue ==
    [][(pc = "steady_task" /\ pc' # pc /\ min_wait <= max_wait) =>
          (pc' = "try_recv" /\ wait_time' \in min_wait..max_wait)]_vars

\* INIT, HATCHING, RUNNING, EXITING in their order.
ModeRank(m) ==
    CASE m = "INIT" -> 0 [] m = "HATCHING" -> 1 [] m = "RUNNING" -> 2 [] m = "EXITING" -> 3

\* C21: the mode of a client only moves forward along INIT, HATCHING,
\* RUNNING, EXITING, whatever is called on the client (set_mode included),
\* and EXITING is never left.
C21_ModeMonotonic ==
    [][ /\ ModeRank(mode') >= ModeRank(mode)
        /\ mode = "EXITING" => mode' = "EXITING" ]_vars

\* C22: every task set the builders return has weight >= 1, min_wait <=
\* max_wait and, when a host is set, a host that parses as a URL.
C22_BuiltTaskSetValid ==
    ~exited =>
        /\ weight >= 1
        /\ task_set_min_wait <= task_set_max_wait
        /\ host.some => ParseOk(host.value)

\* A pass of the drain loop has ended: try_recv has returned Err, which it
\* does only when nothing is pending.
DrainCompleted == pc \in {"sleeping", "loop_head"}

\* C25: in every iteration of the steady loop the control channel is drained
\* at least once after the iteration's task invocation: the invocation is
\* followed by a completed pass of the drain loop.
C25_DrainedEveryIteration == (pc = "steady_task") ~> DrainCompleted

\* C27: after k * len(steady schedule) iterations with max_wait = 0 and no
\* control commands the cursor is back at (0, 0) if and only if the bucket
\* shuffles were the identity.
C27_CursorReturnsIffIdentity ==
    (/\ pc = "loop_head" /\ steadyStarted /\ iterations = 0
     /\ max_wait = 0 /\ sent = 0)
    => ((weighted_bucket = 0 /\ weighted_bucket_position = 0)
        <=> weighted_tasks = thread_task_set.weighted_tasks)

\* The user has no steady task.
EmptySteadySchedule == thread_task_set.weighted_tasks = << >>

\* C28: with an empty steady schedule the driver goes straight from the
\* on_start phase to the on_stop phase: the loop test fails at once, no
\* steady task is invoked, nothing is slept, no command is taken from the
\* control channel, and the driver returns, with the on_stop schedule walked.
C28_EmptyScheduleSkipsLoop ==
    /\ [](EmptySteadySchedule =>
            /\ pc \notin {"steady_task", "try_recv", "sleeping", "panicked"}
            /\ pc = "loop_head" => ~thread_continue
            /\ ~steadyStarted /\ bucketLog = << >>
            /\ slept = 0 /\ quantaAfterExit = 0
            /\ pc = "done" =>
                  CompletesSchedule(stopLog, thread_task_set.weighted_on_stop_tasks))
    /\ [][EmptySteadySchedule =>
            /\ Len(thread_receiver') >= Len(thread_receiver)
            /\ pc = "loop_head" => pc' \in {"loop_head", "on_stop"}]_vars
    /\ EmptySteadySchedule ~> (pc = "done")

\* A user without steady tasks has returned after its on_stop task, and the
\* commands sent to it meanwhile, EXIT among them, are still in the channel.
C28_Witness ==
    /\ EmptySteadySchedule
    /\ pc = "done"
    /\ startLog = << 0 >>
    /\ stopLog = << 1 >>
    /\ Len(thread_receiver) = 2
    /\ ExitSent

\* C31: once EXIT has been sent, whatever the driver was doing then, it
\* starts at most one further steady task and at most one further sleep
\* quantum (the quantum under way, or about to begin, when EXIT was sent
\* ends; no other begins) before the on_stop phase.
C31_AtMostOneMoreAfterExit ==
    ExitSent =>
        /\ tasksAfterExit <= 1
        /\ quantaAfterExit <= 1
        /\ quantaEndedAfterExit <= 1

\* EXIT was sent during the last quantum of a sleep: that quantum ended, one
\* more steady task ran, and the driver has gone through on_stop.
C31_Witness ==
    /\ exitSentAt = "sleeping"
    /\ tasksAfterExit = 1
    /\ quantaEndedAfterExit = 1
    /\ pc = "done"

\* The steady schedule as the builder stored it.
StoredSchedule == thread_task_set.weighted_tasks

\* Every bucket holds the entries the builder put in it, in some order.
KeepsMultisets ==
    /\ Len(weighted_tasks) = Len(StoredSchedule)
    /\ \A k \in 1..Len(weighted_tasks) :
         IsPermutation(weighted_tasks[k], StoredSchedule[k])

\* A step that reorders the schedule is the cursor's advance into a bucket,
\* and reorders that bucket alone.
ReordersOnlyOnAdvance ==
    weighted_tasks' # weighted_tasks =>
        /\ pc = "loop_head"
        /\ BucketExhausted
        /\ weighted_bucket' = NextBucket
        /\ weighted_bucket_position' = 0
        /\ \A k \in 1..Len(weighted_tasks) :
             k # NextBucket + 1 => weighted_tasks'[k] = weighted_tasks[k]

\* Until the cursor first advances, the schedule is as stored and the
\* invocations are the first entries of the initial bucket in stored order.
FirstPassInStoredOrder ==
    (steadyStarted /\ ~advanced) =>
        /\ weighted_tasks = StoredSchedule
        /\ weighted_bucket = 0
        /\ Len(bucketLog) <= Len(StoredSchedule[1])
        /\ bucketLog = SubSeq(StoredSchedule[1], 1, Len(bucketLog))

\* C32: a steady bucket is shuffled only when the cursor advances into it,
\* the shuffle keeps the bucket's multiset of task indices, and so the first
\* pass over the initial bucket invokes its tasks in the stored order.
C32_ShuffledOnlyOnAdvance ==
    /\ []KeepsMultisets
    /\ [][ReordersOnlyOnAdvance]_vars
    /\ []FirstPassInStoredOrder

\* The first pass over the initial bucket <<3, 4>> is complete, in that
\* order, and the cursor has not advanced yet.
C32_Witness ==
    /\ StoredSchedule = << <<3, 4>> >>
    /\ ~advanced
    /\ bucketLog = <<3, 4>>
    /\ pc = "loop_head"

\* The task indices of the task sets.
TaskIndices == 0..6

\* Task e is an entry of the steady schedule.
SteadyEntry(e) == \E k \in 1..Len(StoredSchedule) : e \in Range(StoredSchedule[k])

\* The driver is invoking task e in the steady loop.
Invoking(e) ==
    /\ pc = "steady_task"
    /\ weighted_tasks[weighted_bucket + 1][weighted_bucket_position + 1] = e

\* C33: with no EXIT ever sent and a non-empty steady schedule whose buckets
\* are non-empty, the driver never leaves the steady loop once it is in it,
\* and it invokes every entry of every steady bucket infinitely often.
C33_SteadyLoopRunsForever ==
    ([]~ExitSent) =>
        /\ [](steadyStarted => InSteady)
        /\ \A e \in TaskIndices : []<>(SteadyEntry(e) => Invoking(e))

\* What does hold under FairSpec: the same whenever the draw of the wait
\* cannot panic.
SteadyLoopRunsForeverUnlessPanic ==
    ([](~ExitSent /\ (max_wait = 0 \/ min_wait < max_wait))) =>
        /\ [](steadyStarted => InSteady)
        /\ \A e \in TaskIndices : []<>(SteadyEntry(e) => Invoking(e))

====
